---- MODULE Spec2Model ----
(***************************************************************************)
(* A model of the TrueFit Meds backend (src/backend): the relational       *)
(* store (patients, medications, daily_logs), the ownership-checked        *)
(* request handlers of routers/patients.py, routers/medications.py and     *)
(* routers/logs.py, and the summary pipeline of routers/summary.py         *)
(* (_calculate_adherence, the code-fence normalisation, json.loads and the *)
(* merge of the server-computed adherence).                                *)
(*                                                                         *)
(* Conventions.  A table is a sequence of rows; a row's id is its index    *)
(* (autoincrement primary key, rows are never deleted).  Python's None and *)
(* an absent response body are the empty sequence, a present value v is    *)
(* <<v>>.  A JSON column is [null, items].  Dates are day numbers.  A text *)
(* is a sequence of characters, each a string; the backtick is written     *)
(* "backtick", and a JSON string literal (quotes included, holding no      *)
(* backtick and no line break) is one element.                             *)
(***************************************************************************)
EXTENDS Integers, Sequences, FiniteSets, TLC

VARIABLES
    patients,       \* table patients: rows [id, caregiver_id]
    medications,    \* table medications
    logs,           \* table daily_logs
    reqs,           \* create_or_update_log requests between their lookup and their commit
    today,          \* datetime.now().date()
    api_key,        \* os.getenv("ANTHROPIC_API_KEY"): <<>> when not configured
    response_text,  \* what the external model returned to the last request: <<>> or <<text>>
    resp            \* the outcome of the last request handled

vars == <<patients, medications, logs, reqs, today, api_key, response_text, resp>>

(***************************************************************************)
(* Bounds of the model.                                                    *)
(***************************************************************************)
MaxPatients == 2     \* rows of patients
MaxMeds == 1         \* rows of medications
MaxLogs == 1         \* rows of daily_logs when requests run one at a time
MaxRacingLogs == 2   \* rows of daily_logs when log writes overlap
MaxReqs == 2         \* log writes between their lookup and their commit
MaxAdhLogs == 3

\* Registered caregivers (users); the id 3 names no patient's owner.
Caregivers == {1, 2}

\* timedelta(days=30) of generate_summary and timedelta(days=90) of get_logs.
SummaryWindowDays == 30
LogsWindowDays == 90

FirstDay == LogsWindowDays + SummaryWindowDays

None == <<>>
Some(v) == <<v>>

(***************************************************************************)
(* HTTP outcomes.  HTTPException(status_code, detail) is [status, detail]; *)
(* an exception no handler catches is answered by the framework with 500   *)
(* "Internal Server Error".  called counts the request's calls of the      *)
(* external model; branch is the branch create_or_update_log took at       *)
(* "if existing:" ("update" or "insert").                                  *)
(***************************************************************************)
\* A request: the endpoint, the authenticated caller and the id it names.
Request(op, caller, target) == [op |-> op, caller |-> caller, target |-> target]

HTTPException(req, status, detail) ==
    [op |-> req.op, caller |-> req.caller, target |-> req.target,
     status |-> status, detail |-> detail, body |-> None, called |-> 0, branch |-> ""]

Ok(req, body) ==
    [op |-> req.op, caller |-> req.caller, target |-> req.target,
     status |-> 200, detail |-> "", body |-> Some(body), called |-> 0, branch |-> ""]

NoResponse ==
    [op |-> "none", caller |-> 0, target |-> 0,
     status |-> 0, detail |-> "", body |-> None, called |-> 0, branch |-> ""]

(***************************************************************************)
(* Request bodies (schemas.py).                                            *)
(***************************************************************************)
\* schemas.MedicationCreate
MedicationInputs ==
    { [name |-> "aspirin", dose |-> "10mg", frequency |-> "daily", time_of_day |-> "am"] }

\* schemas.MedicationUpdate after model_dump(exclude_unset=True): a field the
\* request does not set is None, a field it sets is <<value>>.
NoUpdate == [name |-> None, dose |-> None, frequency |-> None, time_of_day |-> None, active |-> None]

MedicationUpdates ==
    { [NoUpdate EXCEPT !.active = Some(TRUE)],
      [NoUpdate EXCEPT !.name = Some("statin"), !.dose = Some("20mg")] }

\* schemas.PatientCreate.medications
PatientMedicationLists == {<<>>} \cup {<<m>> : m \in MedicationInputs}

(***************************************************************************)
(* schemas.DailyLogCreate: the nine content fields.  A list field holds    *)
(* Pydantic models [cls, data]; model_dump() of a model is its data.       *)
(***************************************************************************)
MedicationTaken(mid, taken, time_taken) ==
    [cls |-> "MedicationTaken",
     data |-> [medication_id |-> mid, taken |-> taken, time_taken |-> time_taken]]

Symptom(name, severity) ==
    [cls |-> "Symptom", data |-> [name |-> name, severity |-> severity]]

MedicationSideEffect(mid, mname, effects) ==
    [cls |-> "MedicationSideEffect",
     data |-> [medication_id |-> mid, medication_name |-> mname, side_effects |-> effects]]

Activity(type, minutes) ==
    [cls |-> "Activity", data |-> [type |-> type, duration_minutes |-> minutes]]

Lifestyle(smoked, alcohol, stressed, ate_well) ==
    [cls |-> "Lifestyle",
     data |-> [smoked |-> smoked, alcohol |-> alcohol, stressed |-> stressed, ate_well |-> ate_well]]

\* The defaults of DailyLogCreate: empty lists and None.
ContentDefault ==
    [medications_taken |-> <<>>, symptoms |-> <<>>, medication_side_effects |-> <<>>,
     sleep_hours |-> None, mood_score |-> None, water_intake_oz |-> None,
     activities |-> <<>>, lifestyle |-> None, notes |-> None]

ContentA ==
    [medications_taken |-> <<MedicationTaken(1, TRUE, Some("08:00"))>>,
     symptoms |-> <<Symptom("pain", 3)>>,
     medication_side_effects |-> <<MedicationSideEffect(1, "aspirin", <<[name |-> "nausea", severity |-> 2]>>)>>,
     sleep_hours |-> Some(7), mood_score |-> Some(5), water_intake_oz |-> Some(40),
     activities |-> <<Activity("music", Some(30))>>,
     lifestyle |-> Some(Lifestyle(FALSE, FALSE, TRUE, TRUE)),
     notes |-> Some("good day")]

ContentB ==
    [medications_taken |-> <<MedicationTaken(1, FALSE, None), MedicationTaken(2, TRUE, None)>>,
     symptoms |-> <<Symptom("pain", 6), Symptom("fatigue", 4)>>,
     medication_side_effects |-> <<MedicationSideEffect(2, "statin", <<[name |-> "cramps", severity |-> 5]>>)>>,
     sleep_hours |-> Some(6), mood_score |-> Some(3), water_intake_oz |-> Some(20),
     activities |-> <<Activity("exercise", None)>>,
     lifestyle |-> Some(Lifestyle(TRUE, FALSE, FALSE, FALSE)),
     notes |-> Some("rough day")]

LogContents == {ContentA, ContentB}

\* The dates a request may name: the day before the summary's window, its first day,
\* today and tomorrow.
LogDates == {today - SummaryWindowDays - 1, today - SummaryWindowDays, today, today + 1}

(***************************************************************************)
(* routers/logs.py                                                         *)
(***************************************************************************)
\* A JSON column: NULL, or a list of plain dicts.
JsonNull == [null |-> TRUE, items |-> <<>>]
JsonList(items) == [null |-> FALSE, items |-> items]

\* _serialize_log_field on a list: model_dump() of every item.
SerializeList(value) == JsonList([i \in 1..Len(value) |-> value[i].data])

\* _serialize_log_field on an Optional model: None stays None (NULL), a model is dumped.
SerializeModel(value) == IF value = None THEN JsonNull ELSE JsonList(<<value[1].data>>)

\* fields = {...} of create_or_update_log
LogFields(log_data) ==
    [medications_taken |-> SerializeList(log_data.medications_taken),
     symptoms |-> SerializeList(log_data.symptoms),
     medication_side_effects |-> SerializeList(log_data.medication_side_effects),
     sleep_hours |-> log_data.sleep_hours,
     mood_score |-> log_data.mood_score,
     water_intake_oz |-> log_data.water_intake_oz,
     activities |-> SerializeList(log_data.activities),
     lifestyle |-> SerializeModel(log_data.lifestyle),
     notes |-> log_data.notes]

ContentFields ==
    {"medications_taken", "symptoms", "medication_side_effects", "sleep_hours",
     "mood_score", "water_intake_oz", "activities", "lifestyle", "notes"}

\* The patient query without its filter on caregiver_id.
AnyPatient(current_user, patient_id) ==
    {i \in 1..Len(patients) : i = patient_id}

\* The query Patient.id == patient_id, Patient.caregiver_id == current_user.id: the
\* ids of the matching rows (none or one).
OwnedPatient(current_user, patient_id) ==
    {i \in 1..Len(patients) : i = patient_id /\ patients[i].caregiver_id = current_user}

\* The query DailyLog.patient_id == patient_id, DailyLog.date == date.
LogsFor(patient_id, date) ==
    {i \in 1..Len(logs) : logs[i].patient_id = patient_id /\ logs[i].date = date}

\* The update without its last field, notes.
UpdatedLogButNotes(row, fields) ==
    [f \in DOMAIN row |-> IF f \in ContentFields \ {"notes"} THEN fields[f] ELSE row[f]]

\* for key, val in fields.items(): setattr(existing, key, val)
UpdatedLog(row, fields) ==
    [f \in DOMAIN row |-> IF f \in ContentFields THEN fields[f] ELSE row[f]]

\* models.DailyLog(patient_id=..., logged_by=..., date=..., **fields) with the next id
NewLog(id, patient_id, current_user, date, fields) ==
    [id |-> id, patient_id |-> patient_id, logged_by |-> current_user, date |-> date,
     medications_taken |-> fields.medications_taken,
     symptoms |-> fields.symptoms,
     medication_side_effects |-> fields.medication_side_effects,
     sleep_hours |-> fields.sleep_hours,
     mood_score |-> fields.mood_score,
     water_intake_oz |-> fields.water_intake_oz,
     activities |-> fields.activities,
     lifestyle |-> fields.lifestyle,
     notes |-> fields.notes]

(***************************************************************************)
(* routers/patients.py                                                     *)
(***************************************************************************)
\* models.Medication(patient_id=..., name=..., ...): active defaults to True
NewMedication(id, patient_id, med_data) ==
    [id |-> id, patient_id |-> patient_id, name |-> med_data.name, dose |-> med_data.dose,
     frequency |-> med_data.frequency, time_of_day |-> med_data.time_of_day, active |-> TRUE]

\* The relationship Patient.medications: the patient's rows of the medications table.
MedicationsOf(patient_id) ==
    SelectSeq(medications, LAMBDA m : m.patient_id = patient_id)

\* schemas.PatientResponse
PatientResponse(patient_id) ==
    [id |-> patient_id, caregiver_id |-> patients[patient_id].caregiver_id,
     medications |-> MedicationsOf(patient_id)]

create_patient(current_user, meds) ==
    LET pid == Len(patients) + 1
        req == Request("create_patient", current_user, pid)
    IN
    /\ Len(patients) < MaxPatients
    /\ Len(medications) + Len(meds) <= MaxMeds
    /\ patients' = Append(patients, [id |-> pid, caregiver_id |-> current_user])
    /\ medications' = medications \o
            [i \in 1..Len(meds) |-> NewMedication(Len(medications) + i, pid, meds[i])]
    /\ resp' = Ok(req, [id |-> pid, caregiver_id |-> current_user,
                         medications |-> SelectSeq(medications', LAMBDA m : m.patient_id = pid)])
    /\ response_text' = None
    /\ UNCHANGED <<logs, reqs, today, api_key>>

get_patient(current_user, patient_id) ==
    LET req == Request("get_patient", current_user, patient_id) IN
    /\ resp' = IF OwnedPatient(current_user, patient_id) = {}
                THEN HTTPException(req, 404, "Patient not found")
                ELSE Ok(req, PatientResponse(patient_id))
    /\ response_text' = None
    /\ UNCHANGED <<patients, medications, logs, reqs, today, api_key>>

add_medication(current_user, patient_id, med_data) ==
    LET req == Request("add_medication", current_user, patient_id) IN
    /\ IF OwnedPatient(current_user, patient_id) = {}
       THEN /\ resp' = HTTPException(req, 404, "Patient not found")
            /\ UNCHANGED medications
       ELSE /\ Len(medications) < MaxMeds
            /\ medications' = Append(medications,
                    NewMedication(Len(medications) + 1, patient_id, med_data))
            /\ resp' = Ok(req, medications'[Len(medications')])
    /\ response_text' = None
    /\ UNCHANGED <<patients, logs, reqs, today, api_key>>

(***************************************************************************)
(* routers/medications.py                                                  *)
(***************************************************************************)
\* _get_owned_medication: Medication joined with Patient, filtered by the
\* medication's id and the patient's caregiver: the ids of the matching rows.
OwnedMedication(current_user, medication_id) ==
    {i \in 1..Len(medications) :
        /\ i = medication_id
        /\ medications[i].patient_id \in 1..Len(patients)
        /\ patients[medications[i].patient_id].caregiver_id = current_user}

\* for field, value in med_data.model_dump(exclude_unset=True).items(): setattr(med, field, value)
UpdatedMedication(med, med_data) ==
    [f \in DOMAIN med |->
        IF f \in DOMAIN med_data /\ med_data[f] # None THEN med_data[f][1] ELSE med[f]]

\* med.active = False
DeactivatedMedication(med) == [med EXCEPT !.active = FALSE]

update_medication(current_user, medication_id, med_data) ==
    LET req == Request("update_medication", current_user, medication_id) IN
    /\ IF OwnedMedication(current_user, medication_id) = {}
       THEN /\ resp' = HTTPException(req, 404, "Medication not found")
            /\ UNCHANGED medications
       ELSE /\ medications' = [medications EXCEPT
                    ![medication_id] = UpdatedMedication(medications[medication_id], med_data)]
            /\ resp' = Ok(req, medications'[medication_id])
    /\ response_text' = None
    /\ UNCHANGED <<patients, logs, reqs, today, api_key>>

\* The DELETE handler with db.delete(med) in place of med.active = False.
delete_medication(current_user, medication_id) ==
    LET req == Request("deactivate_medication", current_user, medication_id) IN
    /\ IF OwnedMedication(current_user, medication_id) = {}
       THEN /\ resp' = HTTPException(req, 404, "Medication not found")
            /\ UNCHANGED medications
       ELSE /\ medications' = SelectSeq(medications, LAMBDA m : m.id # medication_id)
            /\ resp' = Ok(req, [message |-> "Medication deactivated"])
    /\ response_text' = None
    /\ UNCHANGED <<patients, logs, reqs, today, api_key>>

deactivate_medication(current_user, medication_id) ==
    LET req == Request("deactivate_medication", current_user, medication_id) IN
    /\ IF OwnedMedication(current_user, medication_id) = {}
       THEN /\ resp' = HTTPException(req, 404, "Medication not found")
            /\ UNCHANGED medications
       ELSE /\ medications' = [medications EXCEPT
                    ![medication_id] = DeactivatedMedication(medications[medication_id])]
            /\ resp' = Ok(req, [message |-> "Medication deactivated"])
    /\ response_text' = None
    /\ UNCHANGED <<patients, logs, reqs, today, api_key>>

(***************************************************************************)
(* routers/logs.py: the handlers.  create_or_update_log reads (the patient *)
(* query and the lookup of an existing log) and then writes (its commit);  *)
(* handlers run on a thread pool, so another request's statements can fall *)
(* between the two.  reqs holds the requests that have read and not yet    *)
(* committed.                                                              *)
(***************************************************************************)
FreeSlots == {r \in 1..MaxReqs : reqs[r] = None}

\* The rows the requests in flight will insert.
PendingInserts == Cardinality({r \in 1..MaxReqs : reqs[r] # None /\ reqs[r][1].existing = None})

\* The write of create_or_update_log: the table after its commit.
CommitLog(current_user, patient_id, date, fields, existing) ==
    IF existing # None
    THEN [logs EXCEPT ![existing[1]] = UpdatedLog(logs[existing[1]], fields)]
    ELSE Append(logs, NewLog(Len(logs) + 1, patient_id, current_user, date, fields))

\* The row the handler returns after db.refresh, with the branch taken.
Committed(req, table, existing) ==
    IF existing # None
    THEN [Ok(req, table[existing[1]]) EXCEPT !.branch = "update"]
    ELSE [Ok(req, table[Len(table)]) EXCEPT !.branch = "insert"]

\* .first() of the lookup: None, or one of the matching rows.
FirstOf(S) == IF S = {} THEN {None} ELSE {Some(i) : i \in S}

\* create_or_update_log up to its lookup: 404 ends the request, otherwise it waits to commit.
create_or_update_log_lookup(current_user, patient_id, date, content) ==
    LET req == Request("create_or_update_log", current_user, patient_id) IN
    /\ IF OwnedPatient(current_user, patient_id) = {}
       THEN /\ resp' = HTTPException(req, 404, "Patient not found")
            /\ response_text' = None
            /\ UNCHANGED reqs
       ELSE \E existing \in FirstOf(LogsFor(patient_id, date)) :
            /\ FreeSlots # {}
            /\ existing = None => Len(logs) + PendingInserts < MaxRacingLogs
            /\ LET r == CHOOSE x \in FreeSlots : \A y \in FreeSlots : x <= y IN
               reqs' = [reqs EXCEPT ![r] = Some([caller |-> current_user,
                            patient_id |-> patient_id, date |-> date,
                            fields |-> LogFields(content), existing |-> existing])]
            /\ UNCHANGED <<resp, response_text>>
    /\ UNCHANGED <<patients, medications, logs, today, api_key>>

\* create_or_update_log from its write on: update of the row found, or insert.
create_or_update_log_commit(r) ==
    /\ reqs[r] # None
    /\ LET q == reqs[r][1] IN
       /\ logs' = CommitLog(q.caller, q.patient_id, q.date, q.fields, q.existing)
       /\ resp' = Committed(Request("create_or_update_log", q.caller, q.patient_id),
                            logs', q.existing)
    /\ reqs' = [reqs EXCEPT ![r] = None]
    /\ response_text' = None
    /\ UNCHANGED <<patients, medications, today, api_key>>

\* create_or_update_log with no other request between its lookup and its commit.
create_or_update_log(current_user, patient_id, date, content) ==
    LET req == Request("create_or_update_log", current_user, patient_id) IN
    /\ IF OwnedPatient(current_user, patient_id) = {}
       THEN /\ resp' = HTTPException(req, 404, "Patient not found")
            /\ UNCHANGED logs
       ELSE \E existing \in FirstOf(LogsFor(patient_id, date)) :
            /\ existing = None => Len(logs) < MaxLogs
            /\ logs' = CommitLog(current_user, patient_id, date, LogFields(content), existing)
            /\ resp' = Committed(req, logs', existing)
    /\ response_text' = None
    /\ UNCHANGED <<patients, medications, reqs, today, api_key>>

\* The orders in which a query may return the rows S sorted by date (rows of one
\* date in either order): ascending, or descending with desc.
OrderedByDate(S, desc) ==
    {q \in [1..Cardinality(S) -> S] :
        /\ \A i, j \in 1..Cardinality(S) : i # j => q[i] # q[j]
        /\ \A i, j \in 1..Cardinality(S) :
              i < j => IF desc THEN logs[q[i]].date >= logs[q[j]].date
                               ELSE logs[q[i]].date <= logs[q[j]].date}

Rows(q) == [i \in 1..Len(q) |-> logs[q[i]]]

get_today_log(current_user, patient_id) ==
    LET req == Request("get_today_log", current_user, patient_id) IN
    /\ IF OwnedPatient(current_user, patient_id) = {}
       THEN resp' = HTTPException(req, 404, "Patient not found")
       ELSE \E first \in FirstOf(LogsFor(patient_id, today)) :
            resp' = Ok(req, IF first = None THEN None ELSE Some(logs[first[1]]))
    /\ response_text' = None
    /\ UNCHANGED <<patients, medications, logs, reqs, today, api_key>>

get_logs(current_user, patient_id) ==
    LET req == Request("get_logs", current_user, patient_id)
        ninety_days_ago == today - LogsWindowDays
        found == {i \in 1..Len(logs) :
                    logs[i].patient_id = patient_id /\ logs[i].date >= ninety_days_ago}
    IN
    /\ IF OwnedPatient(current_user, patient_id) = {}
       THEN resp' = HTTPException(req, 404, "Patient not found")
       ELSE \E q \in OrderedByDate(found, TRUE) : resp' = Ok(req, Rows(q))
    /\ response_text' = None
    /\ UNCHANGED <<patients, medications, logs, reqs, today, api_key>>

(***************************************************************************)
(* routers/summary.py: _calculate_adherence.  A percentage is kept in      *)
(* tenths: 667 is 66.7.  round(x, 1) rounds to the nearest tenth; a tie    *)
(* needs a total that is a multiple of 16 and is rounded to even here.     *)
(***************************************************************************)
RoundedDiv(n, d) ==
    LET q == n \div d
        r == n % d
    IN  IF 2 * r > d THEN q + 1
        ELSE IF 2 * r < d THEN q
        ELSE IF q % 2 = 0 THEN q ELSE q + 1

\* round(taken / total * 100, 1): ZeroDivisionError when total is 0.
RoundedPercentage(taken, total) ==
    IF total = 0
    THEN [raises |-> TRUE, tenths |-> 0]
    ELSE [raises |-> FALSE, tenths |-> RoundedDiv(1000 * taken, total)]

\* The percentage without its guard on a zero total.
PercentageUnguarded(taken, total) == RoundedPercentage(taken, total)

\* round(data["taken"] / data["total"] * 100, 1) if data["total"] else 0
Percentage(taken, total) ==
    IF total # 0 THEN RoundedPercentage(taken, total) ELSE [raises |-> FALSE, tenths |-> 0]

\* not log.medications_taken: NULL or the empty list
Falsy(column) == column.null \/ Len(column.items) = 0

\* The entries the loops of _calculate_adherence visit, as <<log, entry>> positions:
\* every entry of every log whose medications_taken is not skipped.
Entries(rows) ==
    UNION {{<<i, j>> : j \in 1..Len(rows[i].medications_taken.items)} :
             i \in {k \in 1..Len(rows) : ~Falsy(rows[k].medications_taken)}}

EntryAt(rows, e) == rows[e[1]].medications_taken.items[e[2]]

\* med_stats[mid]["total"]: += 1 for every entry whose medication_id is mid
TotalOf(rows, mid) ==
    Cardinality({e \in Entries(rows) : EntryAt(rows, e).medication_id = mid})

\* med_stats[mid]["taken"]: += 1 for every such entry with taken
TakenOf(rows, mid) ==
    Cardinality({e \in Entries(rows) :
        EntryAt(rows, e).medication_id = mid /\ EntryAt(rows, e).taken})

\* The keys of med_stats: one bucket per medication passed in, and no other.
StatKeys(rows, meds) == {meds[i].id : i \in 1..Len(meds)}

NameOf(meds, mid) == (CHOOSE i \in 1..Len(meds) : meds[i].id = mid)

_calculate_adherence(rows, meds) ==
    LET keys == StatKeys(rows, meds)
        pct(mid) == Percentage(TakenOf(rows, mid), TotalOf(rows, mid))
    IN  [raises |-> \E mid \in keys : pct(mid).raises,
         stats |-> [mid \in keys |->
                      [name |-> meds[NameOf(meds, mid)].name,
                       percentage |-> pct(mid).tenths,
                       days_taken |-> TakenOf(rows, mid),
                       days_logged |-> TotalOf(rows, mid)]]]

\* The medications query without its filter on active.
AllMedications(patient_id) ==
    SelectSeq(medications, LAMBDA m : m.patient_id = patient_id)

\* The query Medication.patient_id == patient_id, Medication.active == True
ActiveMedications(patient_id) ==
    SelectSeq(medications, LAMBDA m : m.patient_id = patient_id /\ m.active)

(***************************************************************************)
(* routers/summary.py: the response text.  str.strip, str.startswith,      *)
(* str.split("\n", 1)[-1], str.endswith and str.rsplit(fence, 1)[0] on      *)
(* texts, then json.loads.                                                 *)
(***************************************************************************)
Whitespace == {" ", "\n"}

\* The backtick character.
Backtick == "backtick"

Fence == <<Backtick, Backtick, Backtick>>

\* The JSON string literals of the texts, and the Python str each denotes.
StringLiterals ==
    {"\"executive_summary\"", "\"adherence\"", "\"adherence_data\"", "\"stable\""}

Unquote(tok) ==
    CASE tok = "\"executive_summary\"" -> "executive_summary"
      [] tok = "\"adherence\"" -> "adherence"
      [] tok = "\"adherence_data\"" -> "adherence_data"
      [] tok = "\"stable\"" -> "stable"

Digits == {"1", "2"}

DigitValue(c) == IF c = "1" THEN 1 ELSE 2

RECURSIVE LStrip(_)
LStrip(s) == IF s # <<>> /\ Head(s) \in Whitespace THEN LStrip(Tail(s)) ELSE s

RECURSIVE RStrip(_)
RStrip(s) ==
    IF s # <<>> /\ s[Len(s)] \in Whitespace THEN RStrip(SubSeq(s, 1, Len(s) - 1)) ELSE s

\* str.strip()
Strip(s) == RStrip(LStrip(s))

\* s.startswith(p), s.endswith(p)
StartsWith(s, p) == Len(s) >= Len(p) /\ SubSeq(s, 1, Len(p)) = p
EndsWith(s, p) == Len(s) >= Len(p) /\ SubSeq(s, Len(s) - Len(p) + 1, Len(s)) = p

\* s.split("\n", 1)[-1]: what follows the first line break, or all of s when it has none
AfterFirstLine(s) ==
    IF \E i \in 1..Len(s) : s[i] = "\n"
    THEN LET i == CHOOSE k \in 1..Len(s) : s[k] = "\n" /\ \A j \in 1..(k - 1) : s[j] # "\n"
         IN  SubSeq(s, i + 1, Len(s))
    ELSE s

\* s.rsplit(p, 1)[0]: what precedes the last occurrence of p, or all of s when it has none
BeforeLast(s, p) ==
    LET at == {k \in 1..(Len(s) - Len(p) + 1) : SubSeq(s, k, k + Len(p) - 1) = p} IN
    IF at = {} THEN s
    ELSE SubSeq(s, 1, (CHOOSE k \in at : \A j \in at : j <= k) - 1)

\* The fence stripping without its removal of the opening fence's line.
NormalizeKeepingFirstLine(text) ==
    LET t == Strip(text) IN
    IF StartsWith(t, Fence)
    THEN IF EndsWith(t, Fence) THEN Strip(BeforeLast(t, Fence)) ELSE t
    ELSE t

\* response_text = message.content[0].text.strip() and the stripping of code fences
Normalize(text) ==
    LET t == Strip(text) IN
    IF StartsWith(t, Fence)
    THEN LET u == AfterFirstLine(t) IN
         IF EndsWith(u, Fence) THEN Strip(BeforeLast(u, Fence)) ELSE u
    ELSE t

(***************************************************************************)
(* json.loads over the texts' alphabet: objects with string keys, arrays,  *)
(* numbers of the digits 1 and 2, string literals and null, with           *)
(* whitespace between tokens.  A Python value is [t, v]: t its type.       *)
(***************************************************************************)
PyDict(f) == [t |-> "dict", v |-> f]
PyList(q) == [t |-> "list", v |-> q]
PyInt(n) == [t |-> "int", v |-> <<n>>]
PyStr(x) == [t |-> "str", v |-> <<x>>]
PyNone == [t |-> "NoneType", v |-> <<>>]

Parsed(val, pos) == [ok |-> TRUE, val |-> <<val>>, pos |-> pos]
ParseFail == [ok |-> FALSE, val |-> <<>>, pos |-> 0]

RECURSIVE SkipWs(_, _)
SkipWs(s, i) == IF i <= Len(s) /\ s[i] \in Whitespace THEN SkipWs(s, i + 1) ELSE i

Is(s, i, c) == i <= Len(s) /\ s[i] = c

\* d.setdefault(key, val): a key the dict already has keeps its value.
SetDefault(f, key, val) ==
    [k \in DOMAIN f \cup {key} |-> IF k \in DOMAIN f THEN f[k] ELSE val]

\* d[key] = val on a dict (a later duplicate key replaces an earlier one)
SetItem(f, key, val) ==
    [k \in DOMAIN f \cup {key} |-> IF k = key THEN val ELSE f[k]]

RECURSIVE ParseNumber(_, _, _)
ParseNumber(s, i, n) ==
    IF i <= Len(s) /\ s[i] \in Digits
    THEN ParseNumber(s, i + 1, 10 * n + DigitValue(s[i]))
    ELSE Parsed(PyInt(n), i)

RECURSIVE ParseValue(_, _)
RECURSIVE ParseElements(_, _, _)
RECURSIVE ParseMembers(_, _, _)

\* The value that starts at or after position i.
ParseValue(s, i0) ==
    LET i == SkipWs(s, i0) IN
    IF i > Len(s) THEN ParseFail
    ELSE IF s[i] = "{"
         THEN IF Is(s, SkipWs(s, i + 1), "}")
              THEN Parsed(PyDict(<<>>), SkipWs(s, i + 1) + 1)
              ELSE ParseMembers(s, SkipWs(s, i + 1), <<>>)
    ELSE IF s[i] = "["
         THEN IF Is(s, SkipWs(s, i + 1), "]")
              THEN Parsed(PyList(<<>>), SkipWs(s, i + 1) + 1)
              ELSE ParseElements(s, i + 1, <<>>)
    ELSE IF s[i] \in Digits THEN ParseNumber(s, i, 0)
    ELSE IF s[i] \in StringLiterals THEN Parsed(PyStr(Unquote(s[i])), i + 1)
    ELSE IF i + 3 <= Len(s) /\ SubSeq(s, i, i + 3) = <<"n", "u", "l", "l">>
         THEN Parsed(PyNone, i + 4)
    ELSE ParseFail

\* The elements of an array from position i on, after the elements acc.
ParseElements(s, i, acc) ==
    LET e == ParseValue(s, i) IN
    IF ~e.ok THEN ParseFail
    ELSE LET j == SkipWs(s, e.pos)
             items == Append(acc, e.val[1])
         IN  IF Is(s, j, ",") THEN ParseElements(s, j + 1, items)
             ELSE IF Is(s, j, "]") THEN Parsed(PyList(items), j + 1)
             ELSE ParseFail

\* The members of an object from position i (a key) on, after the members acc.
ParseMembers(s, i, acc) ==
    IF ~(i <= Len(s) /\ s[i] \in StringLiterals) THEN ParseFail
    ELSE LET c == SkipWs(s, i + 1) IN
         IF ~Is(s, c, ":") THEN ParseFail
         ELSE LET e == ParseValue(s, c + 1) IN
              IF ~e.ok THEN ParseFail
              ELSE LET j == SkipWs(s, e.pos)
                       members == SetItem(acc, Unquote(s[i]), e.val[1])
                   IN  IF Is(s, j, ",") THEN ParseMembers(s, SkipWs(s, j + 1), members)
                       ELSE IF Is(s, j, "}") THEN Parsed(PyDict(members), j + 1)
                       ELSE ParseFail

\* json.loads(text): the value, or JSONDecodeError (ok is FALSE) when the text is
\* no JSON value or is followed by more than whitespace.
JsonLoads(text) ==
    LET e == ParseValue(text, 1) IN
    IF e.ok /\ SkipWs(text, e.pos) > Len(text)
    THEN [ok |-> TRUE, val |-> e.val]
    ELSE [ok |-> FALSE, val |-> <<>>]

(***************************************************************************)
(* routers/summary.py: generate_summary.  The aggregates and the prompt    *)
(* (lines 86-206) are computed from stored rows, raise nothing on them and *)
(* reach the response only through the external model, whose answer is     *)
(* any of ModelOutcomes here.                                              *)
(***************************************************************************)
\* What client.messages.create may do: raise (an API error, a timeout), return a
\* message without content, or return a message whose first block is a text.
ModelRaises == [kind |-> "raises", text |-> <<>>]
ModelNoContent == [kind |-> "no_content", text |-> <<>>]
ModelText(t) == [kind |-> "text", text |-> t]

\* The texts the model returns in the full specification: an object, the same
\* fenced, an array and a truncated object.
SummaryTexts ==
    { <<"{", "\"executive_summary\"", ":", "\"stable\"", "}">>,
      Fence \o <<"j", "s", "o", "n", "\n", "{", "\"adherence\"", ":", "[", "1", "]", ",",
                 "\"adherence_data\"", ":", "1", "}", "\n">> \o Fence,
      <<"[", "1", ",", "2", "]">>,
      <<"{", "\"executive_summary\"", ":">> }

ModelOutcomes == {ModelRaises, ModelNoContent} \cup {ModelText(t) : t \in SummaryTexts}

\* {str(mid): d for mid, d in adherence.items()}
AdherenceData(stats) ==
    [k \in {ToString(mid) : mid \in DOMAIN stats} |->
        stats[CHOOSE mid \in DOMAIN stats : ToString(mid) = k]]

\* The query DailyLog.patient_id == patient_id, DailyLog.date >= thirty_days_ago
LogsSince(patient_id, day) ==
    {i \in 1..Len(logs) : logs[i].patient_id = patient_id /\ logs[i].date >= day}

\* An exception that no handler catches: the framework's 500.
Unhandled(req, called) ==
    [HTTPException(req, 500, "Internal Server Error") EXCEPT !.called = called]

\* generate_summary with the external call in a loop of two attempts: a failed call
\* is made again before the failure is let through.
SummaryAfterRetry(req, adherence, outcome) ==
    IF outcome.kind \in {"raises", "no_content"} THEN Unhandled(req, 2)
    ELSE LET loaded == JsonLoads(Normalize(outcome.text)) IN
         IF ~loaded.ok
         THEN [HTTPException(req, 500, "Failed to parse AI response as JSON") EXCEPT !.called = 1]
         ELSE IF loaded.val[1].t # "dict" THEN Unhandled(req, 1)
         ELSE [Ok(req, PyDict(SetItem(loaded.val[1].v, "adherence_data",
                                      PyDict(AdherenceData(adherence.stats)))))
               EXCEPT !.called = 1]

\* generate_summary from the external call on (lines 212-238).
SummaryAfterCall(req, adherence, outcome) ==
    IF outcome.kind = "raises" THEN Unhandled(req, 1)
    ELSE IF outcome.kind = "no_content" THEN Unhandled(req, 1)
    ELSE LET loaded == JsonLoads(Normalize(outcome.text)) IN
         IF ~loaded.ok
         THEN [HTTPException(req, 500, "Failed to parse AI response as JSON") EXCEPT !.called = 1]
         ELSE IF loaded.val[1].t # "dict" THEN Unhandled(req, 1)
         ELSE [Ok(req, PyDict(SetItem(loaded.val[1].v, "adherence_data",
                                      PyDict(AdherenceData(adherence.stats)))))
               EXCEPT !.called = 1]

generate_summary(current_user, patient_id, outcome) ==
    LET req == Request("generate_summary", current_user, patient_id)
        thirty_days_ago == today - SummaryWindowDays
        found == LogsSince(patient_id, thirty_days_ago)
    IN
    /\ IF OwnedPatient(current_user, patient_id) = {}
       THEN /\ resp' = HTTPException(req, 404, "Patient not found")
            /\ response_text' = None
       ELSE IF found = {}
       THEN /\ resp' = HTTPException(req, 404, "No logs found for the last 30 days")
            /\ response_text' = None
       ELSE \E q \in OrderedByDate(found, FALSE) :
            LET adherence == _calculate_adherence(Rows(q), ActiveMedications(patient_id)) IN
            IF adherence.raises
            THEN /\ resp' = Unhandled(req, 0)
                 /\ response_text' = None
            ELSE IF api_key = None
            THEN /\ resp' = HTTPException(req, 500, "ANTHROPIC_API_KEY not configured")
                 /\ response_text' = None
            ELSE /\ resp' = SummaryAfterCall(req, adherence, outcome)
                 /\ response_text' = IF outcome.kind = "text" THEN Some(outcome.text) ELSE None
    /\ UNCHANGED <<patients, medications, logs, reqs, today, api_key>>

(***************************************************************************)
(* The specifications.  Every one starts from the empty store.             *)
(***************************************************************************)
PatientIds == 1..(MaxPatients + 1)
MedicationIds == 1..(MaxMeds + 1)

EmptyStore ==
    /\ patients = <<>>
    /\ medications = <<>>
    /\ logs = <<>>
    /\ reqs = [r \in 1..MaxReqs |-> None]
    /\ today = FirstDay
    /\ response_text = None
    /\ resp = NoResponse

\* The log handlers never read the credential: it is left unconfigured.
Init == EmptyStore /\ api_key = None

\* The process starts with the credential configured or not.
SeqInit == EmptyStore /\ api_key \in {None, Some("sk-key")}

\* Log writes on the thread pool: create_or_update_log in its two steps, any number
\* of requests between their lookup and their commit.
Next ==
    \/ \E c \in Caregivers : create_patient(c, <<>>)
    \/ \E c \in Caregivers, p \in PatientIds, d \in {today, today + 1}, content \in LogContents :
          create_or_update_log_lookup(c, p, d, content)
    \/ \E r \in 1..MaxReqs : create_or_update_log_commit(r)

Spec == Init /\ [][Next]_vars

\* Every endpoint, one request at a time: each handler runs from its first statement
\* to its response before the next request starts.
SeqNext ==
    \/ \E c \in Caregivers, meds \in PatientMedicationLists : create_patient(c, meds)
    \/ \E c \in Caregivers, p \in PatientIds : get_patient(c, p)
    \/ \E c \in Caregivers, p \in PatientIds, m \in MedicationInputs : add_medication(c, p, m)
    \/ \E c \in Caregivers, m \in MedicationIds, u \in MedicationUpdates : update_medication(c, m, u)
    \/ \E c \in Caregivers, m \in MedicationIds : deactivate_medication(c, m)
    \/ \E c \in Caregivers, p \in PatientIds, d \in LogDates, content \in LogContents :
          create_or_update_log(c, p, d, content)
    \/ \E c \in Caregivers, p \in PatientIds : get_today_log(c, p)
    \/ \E c \in Caregivers, p \in PatientIds : get_logs(c, p)
    \/ \E c \in Caregivers, p \in PatientIds, o \in ModelOutcomes : generate_summary(c, p, o)

SeqSpec == SeqInit /\ [][SeqNext]_vars

(***************************************************************************)
(* Claims about the log writes.                                            *)
(***************************************************************************)
\* C1: in every reachable state, whatever the interleaving of create_or_update_log
\* requests, there is at most one daily_logs row per (patient_id, date).
C1_OneLogPerPatientDate ==
    \A i, j \in 1..Len(logs) :
        (logs[i].patient_id = logs[j].patient_id /\ logs[i].date = logs[j].date) => i = j

\* C1's failure: two rows of one patient and date, inserted by overlapping requests.
C1_DuplicateRows ==
    \E i, j \in 1..Len(logs) :
        i # j /\ logs[i].patient_id = logs[j].patient_id /\ logs[i].date = logs[j].date

\* C2: when the owner submits a log for a (patient, date) that already has one, the
\* store ends with exactly one log for that key; its nine content fields are those
\* of this submission and its id, patient_id, date and logged_by those of the first.
C2_SecondSubmissionReplaces ==
    [][ (resp'.op = "create_or_update_log" /\ resp'.status = 200) =>
          LET c == resp'.caller
              p == resp'.target
              d == resp'.body[1].date
          IN  \A content \in LogContents :
                ( /\ LogsFor(p, d) # {}
                  /\ create_or_update_log(c, p, d, content) )
                => \E i \in LogsFor(p, d) :
                      /\ Len(logs') = Len(logs)
                      /\ {k \in 1..Len(logs') : logs'[k].patient_id = p /\ logs'[k].date = d} = {i}
                      /\ \A f \in ContentFields : logs'[i][f] = LogFields(content)[f]
                      /\ logs'[i].id = logs[i].id
                      /\ logs'[i].patient_id = logs[i].patient_id
                      /\ logs'[i].date = logs[i].date
                      /\ logs'[i].logged_by = logs[i].logged_by
                      /\ resp'.body = Some(logs'[i]) ]_vars

\* C2's case: a submission took the update branch and left the only log of its key
\* with the content of ContentB.
C2_Witness ==
    /\ resp.op = "create_or_update_log"
    /\ resp.branch = "update"
    /\ resp.status = 200
    /\ LogsFor(resp.body[1].patient_id, resp.body[1].date) = {resp.body[1].id}
    /\ \A f \in ContentFields : logs[resp.body[1].id][f] = LogFields(ContentB)[f]

(***************************************************************************)
(* Claims about ownership and about generate_summary's outcomes, checked   *)
(* under SeqSpec.                                                          *)
(***************************************************************************)
PatientEndpoints ==
    {"get_patient", "add_medication", "create_or_update_log", "get_today_log",
     "get_logs", "generate_summary"}

MedicationEndpoints == {"update_medication", "deactivate_medication"}

\* Caregiver c owns patient p; caregiver c owns the patient of medication m.
OwnsPatient(c, p) == p \in 1..Len(patients) /\ patients[p].caregiver_id = c

OwnsMedication(c, m) ==
    m \in 1..Len(medications) /\ OwnsPatient(c, medications[m].patient_id)

\* The request r names a patient or a medication that its caller does not own:
\* another caregiver's, or none at all.
NamesForeign(r) ==
    \/ r.op \in PatientEndpoints /\ ~OwnsPatient(r.caller, r.target)
    \/ r.op \in MedicationEndpoints /\ ~OwnsMedication(r.caller, r.target)

\* C3: a request naming a patient or medication the caller does not own ends as one
\* naming a nonexistent id does: in 404 with the endpoint's fixed not-found detail,
\* without a body and without a call of the model, and changes no row.
C3_OwnershipIsolation ==
    [][ NamesForeign(resp') =>
          /\ resp'.status = 404
          /\ resp'.detail = IF resp'.op \in MedicationEndpoints
                            THEN "Medication not found" ELSE "Patient not found"
          /\ resp'.body = None
          /\ resp'.called = 0
          /\ UNCHANGED <<patients, medications, logs>> ]_vars

\* C3's case: a summary asked by a caregiver for another caregiver's patient, who has
\* a log of today, was answered 404.
C3_Witness ==
    /\ resp.op = "generate_summary"
    /\ resp.status = 404
    /\ resp.target \in 1..Len(patients)
    /\ patients[resp.target].caregiver_id # resp.caller
    /\ LogsFor(resp.target, today) # {}

SummaryDone == resp.op = "generate_summary"

\* The logs of patient p dated in the trailing 30 days: today - 30 <= date <= today.
TrailingLogs(p) ==
    {i \in 1..Len(logs) :
        /\ logs[i].patient_id = p
        /\ today - SummaryWindowDays <= logs[i].date
        /\ logs[i].date <= today}

\* C4: generate_summary ends, in this order of priority, in 404 for a patient the
\* caller does not own, 404 for no log in the window, 500 without a call of the model
\* for an unconfigured credential, 500 for a response that is no JSON, and otherwise
\* in 200 with the merged object.  (No outcome is named for a call that fails.)
C4_SummaryOutcomes ==
    SummaryDone =>
        IF ~OwnsPatient(resp.caller, resp.target) THEN resp.status = 404
        ELSE IF TrailingLogs(resp.target) = {} THEN resp.status = 404
        ELSE IF api_key = None THEN resp.status = 500 /\ resp.called = 0
        ELSE IF response_text = None THEN TRUE
        ELSE IF ~JsonLoads(Normalize(response_text[1])).ok THEN resp.status = 500
        ELSE /\ resp.status = 200
             /\ resp.body # None
             /\ "adherence_data" \in DOMAIN resp.body[1].v

\* C5: for an owned patient without a log dated in the trailing 30 days (logs dated
\* after today included), generate_summary fails with not-found and never returns 200.
C5_EmptyWindowRejected ==
    ( /\ SummaryDone
      /\ OwnsPatient(resp.caller, resp.target)
      /\ TrailingLogs(resp.target) = {} )
    => /\ resp.status = 404
       /\ resp.detail = "No logs found for the last 30 days"

\* C5's failure: a 200 for a patient whose only logs are dated after today.
C5_FutureLogsSummarised ==
    /\ SummaryDone
    /\ resp.status = 200
    /\ TrailingLogs(resp.target) = {}
    /\ \A i \in 1..Len(logs) : logs[i].patient_id = resp.target => logs[i].date > today

\* The model returned a text that, normalised, is not a JSON object.
NotAnObject(text) ==
    LET loaded == JsonLoads(Normalize(text)) IN
    ~loaded.ok \/ loaded.val[1].t # "dict"

\* C10: whenever the normalised response is not a JSON object, generate_summary ends
\* in the 500 of an unparseable response, without a body.
C10_NonObjectIsUnparseable ==
    (SummaryDone /\ response_text # None /\ NotAnObject(response_text[1]))
    => /\ resp.status = 500
       /\ resp.detail = "Failed to parse AI response as JSON"
       /\ resp.body = None

\* C10's failure: a response that is a JSON array ends in the framework's 500.
C10_ArrayIsInternalError ==
    /\ SummaryDone
    /\ response_text # None
    /\ JsonLoads(Normalize(response_text[1])).ok
    /\ JsonLoads(Normalize(response_text[1])).val[1].t = "list"
    /\ resp.status = 500
    /\ resp.detail = "Internal Server Error"

\* The object the model returned, parsed; the object generate_summary returned.
ModelObject == JsonLoads(Normalize(response_text[1])).val[1].v

Returned == resp.body[1].v

\* The adherence of the patient of the answered request, computed from the stored
\* rows (generate_summary changes none), keyed by the medication id as a string.
ServerAdherence ==
    LET q == CHOOSE o \in OrderedByDate(LogsSince(resp.target, today - SummaryWindowDays), FALSE) : TRUE
        stats == _calculate_adherence(Rows(q), ActiveMedications(resp.target)).stats
    IN  [k \in {ToString(mid) : mid \in DOMAIN stats} |->
            stats[CHOOSE mid \in DOMAIN stats : ToString(mid) = k]]

\* C11: a 200 of generate_summary returns the model's parsed object with the one key
\* adherence_data set to the server-computed adherence keyed by medication id as a
\* string: every other key, the model's adherence list included, is as the model
\* gave it, and adherence_data holds the server figures even if the model gave one.
C11_MergeKeepsModelObject ==
    (SummaryDone /\ resp.status = 200) =>
        /\ resp.body[1].t = "dict"
        /\ DOMAIN Returned = DOMAIN ModelObject \cup {"adherence_data"}
        /\ \A k \in DOMAIN ModelObject \ {"adherence_data"} : Returned[k] = ModelObject[k]
        /\ Returned["adherence_data"] = PyDict(ServerAdherence)

\* C11's case: a 200 for a patient with an active medication, where the model's
\* object had an adherence list and an adherence_data key of its own.
C11_Witness ==
    /\ SummaryDone
    /\ resp.status = 200
    /\ {"adherence", "adherence_data"} \subseteq DOMAIN ModelObject
    /\ ModelObject["adherence_data"] = PyInt(1)
    /\ Returned["adherence"] = ModelObject["adherence"]
    /\ DOMAIN Returned["adherence_data"].v # {}

\* The external call of the answered request failed: it was made and gave no text
\* (client.messages.create raised, or the message had no content).
CallFailed == SummaryDone /\ resp.called >= 1 /\ response_text = None

Entry(mid, taken) == [medication_id |-> mid, taken |-> taken, time_taken |-> None]

\* The medications_taken columns drawn: NULL, empty, one entry, two entries for one
\* medication, entries for two medications.
AdhColumns ==
    { JsonNull,
      JsonList(<<>>),
      JsonList(<<Entry(1, TRUE)>>),
      JsonList(<<Entry(1, FALSE)>>),
      JsonList(<<Entry(2, TRUE)>>),
      JsonList(<<Entry(1, TRUE), Entry(1, TRUE)>>),
      JsonList(<<Entry(1, TRUE), Entry(1, FALSE)>>),
      JsonList(<<Entry(1, FALSE), Entry(2, TRUE)>>) }

AdhMedication(id, patient_id, active) ==
    [NewMedication(id, patient_id,
        [name |-> "aspirin", dose |-> "10mg", frequency |-> "daily", time_of_day |-> "am"])
     EXCEPT !.active = active]

\* The medications tables drawn: medication 2 absent, active, deactivated, or another
\* patient's; medication 1 active or deactivated.
AdhMedicationTables ==
    { <<>> } \cup
    { <<AdhMedication(1, 1, a)>> : a \in BOOLEAN } \cup
    { <<AdhMedication(1, 1, a), AdhMedication(2, p, b)>> :
        a \in {TRUE}, p \in {1, 2}, b \in BOOLEAN }

AdhLog(i, column) ==
    NewLog(i, 1, 1, FirstDay - i, [LogFields(ContentDefault) EXCEPT !.medications_taken = column])

AdhLogTables ==
    UNION {{[i \in 1..n |-> AdhLog(i, cols[i])] : cols \in [1..n -> AdhColumns]} :
             n \in 0..MaxAdhLogs}

AdhInit ==
    /\ patients = <<[id |-> 1, caregiver_id |-> 1], [id |-> 2, caregiver_id |-> 2]>>
    /\ medications \in AdhMedicationTables
    /\ logs \in AdhLogTables
    /\ reqs = [r \in 1..MaxReqs |-> None]
    /\ today = FirstDay
    /\ api_key = None
    /\ response_text = None
    /\ resp = NoResponse

\* medications = ...; adherence = _calculate_adherence(logs, medications)
calculate_adherence ==
    /\ resp.op = "none"
    /\ resp' = Ok(Request("_calculate_adherence", 1, 1),
                  _calculate_adherence(logs, ActiveMedications(1)))
    /\ UNCHANGED <<patients, medications, logs, reqs, today, api_key, response_text>>

AdhNext == calculate_adherence

AdhSpec == AdhInit /\ [][AdhNext]_vars

(***************************************************************************)
(* Claims about _calculate_adherence, checked under AdhSpec.               *)
(***************************************************************************)
AdhDone == resp.op = "_calculate_adherence"

AdhResult == resp.body[1]

\* The active medications of patient 1, read off the table.
ActiveIds ==
    {i \in 1..Len(medications) : medications[i].patient_id = 1 /\ medications[i].active}

\* The logs that hold an entry for medication mid, and those that hold a taken one.
LogsWithEntry(mid) ==
    {i \in 1..Len(logs) :
        /\ ~logs[i].medications_taken.null
        /\ \E j \in 1..Len(logs[i].medications_taken.items) :
              logs[i].medications_taken.items[j].medication_id = mid}

LogsWithTaken(mid) ==
    {i \in 1..Len(logs) :
        /\ ~logs[i].medications_taken.null
        /\ \E j \in 1..Len(logs[i].medications_taken.items) :
              /\ logs[i].medications_taken.items[j].medication_id = mid
              /\ logs[i].medications_taken.items[j].taken}

\* C6: for each active medication, days_logged is the number of logs with an entry for
\* it and days_taken the number of logs with a taken entry for it, so that
\* days_taken <= days_logged <= number of logs.
C6_DaysCountLogs ==
    AdhDone =>
        \A mid \in DOMAIN AdhResult.stats :
            /\ AdhResult.stats[mid].days_logged = Cardinality(LogsWithEntry(mid))
            /\ AdhResult.stats[mid].days_taken = Cardinality(LogsWithTaken(mid))
            /\ AdhResult.stats[mid].days_taken <= AdhResult.stats[mid].days_logged
            /\ AdhResult.stats[mid].days_logged <= Len(logs)

\* C6, its example: three logs with one entry each for medication 1, taken on two of
\* them, give days_taken 2, days_logged 3, percentage 66.7.
C6_Example ==
    ( /\ AdhDone
      /\ 1 \in ActiveIds
      /\ Len(logs) = 3
      /\ \A i \in 1..3 : ~logs[i].medications_taken.null
                          /\ Len(logs[i].medications_taken.items) = 1
                          /\ logs[i].medications_taken.items[1].medication_id = 1
      /\ Cardinality(LogsWithTaken(1)) = 2 )
    => /\ AdhResult.stats[1].days_taken = 2
       /\ AdhResult.stats[1].days_logged = 3
       /\ AdhResult.stats[1].percentage = 667

\* C7: an active medication with no matching entry in any log (logs whose
\* medications_taken is NULL or empty included) gets percentage 0, days_taken 0 and
\* days_logged 0, and the computation raises no error.
C7_ZeroDivision ==
    AdhDone =>
        /\ ~AdhResult.raises
        /\ \A mid \in ActiveIds :
              LogsWithEntry(mid) = {} =>
                  /\ mid \in DOMAIN AdhResult.stats
                  /\ AdhResult.stats[mid].percentage = 0
                  /\ AdhResult.stats[mid].days_taken = 0
                  /\ AdhResult.stats[mid].days_logged = 0

\* C7's case: an active medication without entries, among logs of which one has a
\* NULL and one an empty medications_taken.
C7_Witness ==
    /\ AdhDone
    /\ \E mid \in ActiveIds : LogsWithEntry(mid) = {}
    /\ \E i \in 1..Len(logs) : logs[i].medications_taken.null
    /\ \E i \in 1..Len(logs) :
          ~logs[i].medications_taken.null /\ Len(logs[i].medications_taken.items) = 0

\* The logs with every entry for a medication outside ActiveIds removed.
WithoutDangling ==
    [i \in 1..Len(logs) |->
        [logs[i] EXCEPT !.medications_taken =
            [null |-> @.null,
             items |-> SelectSeq(@.items, LAMBDA e : e.medication_id \in ActiveIds)]]]

HasDangling(i) ==
    /\ ~logs[i].medications_taken.null
    /\ \E j \in 1..Len(logs[i].medications_taken.items) :
          logs[i].medications_taken.items[j].medication_id \notin ActiveIds

\* C8: entries for a medication outside the active set change no bucket, create no
\* bucket and raise no error: the result's keys are the active medication ids and the
\* result is that of the logs without those entries.
C8_DanglingIgnored ==
    AdhDone =>
        /\ ~AdhResult.raises
        /\ DOMAIN AdhResult.stats = ActiveIds
        /\ AdhResult.stats = _calculate_adherence(WithoutDangling, ActiveMedications(1)).stats

\* C8's case: entries for a deactivated medication beside entries for an active one.
C8_Witness ==
    /\ AdhDone
    /\ ActiveIds # {}
    /\ \E m \in 1..Len(medications) :
          /\ medications[m].patient_id = 1 /\ ~medications[m].active
          /\ LogsWithEntry(m) # {}
    /\ \E i \in 1..Len(logs) : HasDangling(i) /\ i \in LogsWithEntry(1)

(***************************************************************************)
(* The response validation on its own: the normalisation and json.loads of *)
(* generate_summary applied to response texts drawn from bounded sets.     *)
(***************************************************************************)
\* JSON texts: objects (one of them over several lines), an array, a number, a
\* string and null.
JsonTexts ==
    { <<"{", "}">>,
      <<"{", "\"executive_summary\"", ":", "\"stable\"", "}">>,
      <<"{", "\n", " ", "\"adherence\"", ":", " ", "[", "1", "]", "\n", "}">>,
      <<"{", "\"adherence_data\"", ":", "1", ",", "\"executive_summary\"", ":", "\"stable\"", "}">>,
      <<"[", "1", ",", "2", "]">>,
      <<"1", "2">>,
      <<"\"stable\"">>,
      <<"n", "u", "l", "l">> }

\* Texts that are no JSON: a truncated object, prose, two values.
BrokenTexts ==
    { <<"{", "\"executive_summary\"", ":">>,
      <<"s", "o", " ", "{", "}">>,
      <<"{", "}", "{", "}">> }

LanguageTags == {<<>>, <<"j", "s", "o", "n">>}

\* J between an opening fence with its language tag and a closing fence: lead and
\* trail around the whole, afterTag between the tag and J, beforeClose between J
\* and the closing fence.
Fenced(J, lead, tag, afterTag, beforeClose, trail) ==
    lead \o Fence \o tag \o afterTag \o J \o beforeClose \o Fence \o trail

FencedTexts ==
    { Fenced(J, lead, tag, afterTag, beforeClose, trail) :
        J \in JsonTexts, lead \in {<<>>, <<" ">>}, tag \in LanguageTags,
        afterTag \in {<<>>, <<" ">>, <<"\n">>},
        beforeClose \in {<<>>, <<"\n">>}, trail \in {<<>>, <<"\n">>} }

\* An opening fence that is never closed.
UnclosedTexts == { Fence \o tag \o <<"\n">> \o J : J \in JsonTexts, tag \in LanguageTags }

ResponseTexts == JsonTexts \cup BrokenTexts \cup FencedTexts \cup UnclosedTexts

FenceInit ==
    /\ patients = <<>>
    /\ medications = <<>>
    /\ logs = <<>>
    /\ reqs = [r \in 1..MaxReqs |-> None]
    /\ today = FirstDay
    /\ api_key = None
    /\ response_text \in {Some(t) : t \in ResponseTexts}
    /\ resp = NoResponse

\* The normalisation and the parse of generate_summary.
validate_response ==
    /\ resp.op = "none"
    /\ resp' = Ok(Request("validate_response", 0, 0),
                  [text |-> Normalize(response_text[1]),
                   loaded |-> JsonLoads(Normalize(response_text[1]))])
    /\ UNCHANGED <<patients, medications, logs, reqs, today, api_key, response_text>>

FenceNext == validate_response

FenceSpec == FenceInit /\ [][FenceNext]_vars

Validated == resp.op = "validate_response"

\* C9, as stated: a response made of an opening fence, with or without a language tag,
\* a JSON text J and a closing fence parses to the value of J alone, wherever the
\* fences stand.
C9_FencedEqualsUnfenced ==
    Validated =>
        \A J \in JsonTexts, tag \in LanguageTags :
        \A lead \in {<<>>, <<" ">>}, afterTag \in {<<>>, <<" ">>, <<"\n">>} :
        \A beforeClose \in {<<>>, <<"\n">>}, trail \in {<<>>, <<"\n">>} :
            response_text[1] = Fenced(J, lead, tag, afterTag, beforeClose, trail)
                => resp.body[1].loaded = JsonLoads(Normalize(J))

\* C9, amended: the same when the opening fence and its language tag are followed by
\* a line break; the closing fence may follow J directly or stand on its own line.
C9_FencedOwnLineEqualsUnfenced ==
    Validated =>
        \A J \in JsonTexts, tag \in LanguageTags :
        \A lead \in {<<>>, <<" ">>}, beforeClose \in {<<>>, <<"\n">>}, trail \in {<<>>, <<"\n">>} :
            response_text[1] = Fenced(J, lead, tag, <<"\n">>, beforeClose, trail)
                => /\ resp.body[1].loaded = JsonLoads(Normalize(J))
                   /\ resp.body[1].loaded.ok

\* C9's case: a fenced object with a language tag, the closing fence directly after
\* it, parsed to a dict.
C9_Witness ==
    /\ Validated
    /\ \E J \in JsonTexts :
          /\ response_text[1] = Fenced(J, <<>>, <<"j", "s", "o", "n">>, <<"\n">>, <<>>, <<>>)
          /\ Len(J) > 2
    /\ resp.body[1].loaded.ok
    /\ resp.body[1].loaded.val[1].t = "dict"

(***************************************************************************)
(* The medication handlers on their own: create_patient, add_medication,   *)
(* update_medication and deactivate_medication over a store that already   *)
(* holds patient 1 of caregiver 1 and some of its medications, active or   *)
(* deactivated.                                                            *)
(***************************************************************************)
MaxMedRows == 2

\* The medications tables of the initial store: rows as add_medication stores them,
\* each since deactivated or not.
MedTables ==
    UNION { [1..n -> BOOLEAN] : n \in 0..MaxMedRows }

StoredMedication(id, active) ==
    [NewMedication(id, 1, CHOOSE m \in MedicationInputs : TRUE) EXCEPT !.active = active]

MedInit ==
    /\ patients = <<[id |-> 1, caregiver_id |-> 1]>>
    /\ \E t \in MedTables : medications = [i \in DOMAIN t |-> StoredMedication(i, t[i])]
    /\ logs = <<>>
    /\ reqs = [r \in 1..MaxReqs |-> None]
    /\ today = FirstDay
    /\ api_key = None
    /\ response_text = None
    /\ resp = NoResponse

MedNext ==
    \/ \E c \in Caregivers, meds \in PatientMedicationLists : create_patient(c, meds)
    \/ \E c \in Caregivers, p \in PatientIds, m \in MedicationInputs : add_medication(c, p, m)
    \/ \E c \in Caregivers, m \in 1..(MaxMedRows + 1), u \in MedicationUpdates :
          update_medication(c, m, u)
    \/ \E c \in Caregivers, m \in 1..(MaxMedRows + 1) : deactivate_medication(c, m)

MedSpec == MedInit /\ [][MedNext]_vars

\* C13: no request removes a medication row or changes a row's id or patient_id, and
\* a deactivate_medication answered 200 changes only the active flag of the row it
\* names, to false: every other field, every other row and every patient and log is
\* as before.
C13_MedicationsNeverDeleted ==
    [][ /\ Len(medications') >= Len(medications)
        /\ \A i \in 1..Len(medications) :
              /\ medications'[i].id = medications[i].id
              /\ medications'[i].patient_id = medications[i].patient_id
        /\ (resp'.op = "deactivate_medication" /\ resp'.status = 200) =>
              /\ medications' = [medications EXCEPT ![resp'.target].active = FALSE]
              /\ UNCHANGED <<patients, logs>> ]_vars

\* C13's case: the owner deactivated one of two stored medications; the row is kept,
\* inactive, next to a row that is still active.
C13_Witness ==
    /\ resp.op = "deactivate_medication"
    /\ resp.status = 200
    /\ Len(medications) >= 2
    /\ medications[resp.target].active = FALSE
    /\ \E j \in 1..Len(medications) : j # resp.target /\ medications[j].active

(***************************************************************************)
(* The authorship of the stored logs, checked under Spec: log writes of    *)
(* both caregivers, overlapping.                                           *)
(***************************************************************************)
\* C14: in every reachable state each stored log names an existing patient whose
\* caregiver is the log's logged_by, whether the log was inserted or updated in
\* place and however the writes of the caregivers interleave.
C14_LogAuthorOwnsPatient ==
    \A i \in 1..Len(logs) :
        /\ logs[i].patient_id \in 1..Len(patients)
        /\ patients[logs[i].patient_id].caregiver_id = logs[i].logged_by

\* C14's case: the two caregivers each wrote a log for a patient of their own, and
\* the last write updated a log in place.
C14_Witness ==
    /\ \E i, j \in 1..Len(logs) : logs[i].logged_by = 1 /\ logs[j].logged_by = 2
    /\ resp.op = "create_or_update_log"
    /\ resp.branch = "update"
    /\ resp.status = 200
====
